---- MODULE Spec2Model ----
(***************************************************************************)
(* Model of the ICES reader (src/read.py, src/main.py and the class-based  *)
(* copy src/read_ICES_20220913.py): read_ICES opens a chunked reader over  *)
(* a delimited text file, process_chunks groups every chunk by the cast    *)
(* key and appends to the shared data_lists, create_dataset writes the     *)
(* accumulated lists once.                                                 *)
(*                                                                         *)
(* A key column holds the text of the field in the file: the empty field   *)
(* is the missing value NA (read_csv makes it NaN), int() converts a       *)
(* numeral and raises on other text. The measurement columns are numbers.  *)
(***************************************************************************)
EXTENDS Integers, Sequences, FiniteSets, TLC

\* ------------------------------------------------------------------ bounds
\* rows of the input file
MaxRows == 4
\* rows per chunk (stands for chunksize = 10 ** 6)
ChunkSize == 3
\* depth readings are 0 .. MaxDepth
MaxDepth == 2

\* ------------------------------------------------------------------ input
\* an empty field of the file: read_csv yields NaN for it
NA == ""

BaseRow ==
    [Cruise |-> "C1", Station |-> "1", Year |-> "2022", Month |-> "9",
     Day |-> "13", Hour |-> "12", Minute |-> "30", Lon |-> "10", Lat |-> "60",
     Bot |-> "100", Depth |-> 1, Temp |-> 4, Press |-> 1, Psal |-> 35]

\* the rows a file is made of: two stations at every depth, a row whose
\* bottom depth is empty, and rows with a bad minute
RowSet ==
    {[BaseRow EXCEPT !.Station = s, !.Depth = d, !.Press = d] :
        s \in {"1", "2"}, d \in 0..MaxDepth}
      \cup {[BaseRow EXCEPT !.Bot = NA]}
      \cup {[BaseRow EXCEPT !.Minute = m] : m \in {"60", "ab"}}

\* main.py: the three calls of read_ICES, and a path with another extension
Calls ==
    {[ext |-> ".csv", file_type |-> "bot"],
     [ext |-> ".txt", file_type |-> "ctd"],
     [ext |-> ".txt", file_type |-> "xbt"],
     [ext |-> ".dat", file_type |-> "ctd"]}

VARIABLES
    call,        \* data_path's extension and file_type of this run
    pc,          \* "start", "chunks", "write", "returned", "raised"
    err,         \* where the error was raised from, "" while none
    chunks,      \* the chunks the reader has yielded so far
    more,        \* the reader may hold another chunk
    pending,     \* groups of the current chunk not yet iterated
    i,           \* process_chunks' running counter
    data_lists,  \* the accumulator
    written,     \* number of to_netcdf calls that completed
    casts        \* history: the groups the inner loop has fully processed

vars == <<call, pc, err, chunks, more, pending, i, data_lists, written, casts>>

\* ------------------------------------------------------- initialize_variables
string_attrs(file_type) ==
    IF file_type # "xbt"
    THEN <<"orig_cruise_id", "station_no", "lat", "lon", "datestr", "timestamp",
           "bottom_depth", "shallowest_depth", "deepest_depth", "parent_index">>
    ELSE <<"orig_cruise_id", "station_no", "lat", "lon", "datestr", "timestamp",
           "shallowest_depth", "deepest_depth", "parent_index">>

groupby_attrs(file_type) ==
    IF file_type # "xbt"
    THEN <<"Cruise", "Station", "Year", "Month", "Day", "Hour", "Minute",
           "Lon", "Lat", "Bot">>
    ELSE <<"Cruise", "Station", "Year", "Month", "Day", "Hour", "Minute",
           "Lon", "Lat">>

measurements_attrs(file_type) ==
    IF file_type # "xbt" THEN <<"depth", "press", "temp", "psal">>
    ELSE <<"depth", "temp">>

Range(s) == {s[k] : k \in 1..Len(s)}

initialize_variables(file_type) ==
    [attr \in Range(string_attrs(file_type) \o measurements_attrs(file_type))
        |-> <<>>]

\* ------------------------------------------------------------------ get_date
\* int(): a field converts when it is a numeral, and raises ValueError
\* otherwise (the numerals of the model and their values)
IsNumeral(s) == s \in {"2022", "9", "13", "12", "30", "60"}

int(s) ==
    CASE s = "2022" -> 2022 [] s = "9" -> 9 [] s = "13" -> 13
      [] s = "12" -> 12 [] s = "30" -> 30 [] s = "60" -> 60 [] OTHER -> 0

IsLeap(y) == (y % 4 = 0 /\ y % 100 # 0) \/ y % 400 = 0

DaysInMonth(y, m) ==
    IF m = 2 THEN (IF IsLeap(y) THEN 29 ELSE 28)
    ELSE IF m \in {4, 6, 9, 11} THEN 30 ELSE 31

\* datetime(...) raises ValueError outside these ranges
ValidDate(y, m, d, H, M) ==
    /\ y \in 1..9999
    /\ m \in 1..12
    /\ d \in 1..DaysInMonth(y, m)
    /\ H \in 0..23
    /\ M \in 0..59

\* days since 1970-01-01 of a civil date
DaysFromCivil(y, m, d) ==
    LET yy  == IF m <= 2 THEN y - 1 ELSE y
        era == yy \div 400
        yoe == yy - era * 400
        mp  == IF m > 2 THEN m - 3 ELSE m + 9
        doy == (153 * mp + 2) \div 5 + d - 1
        doe == yoe * 365 + yoe \div 4 - yoe \div 100 + doy
    IN  era * 146097 + doe - 719468

get_date_lenient(year, month, day, hour, minute) ==
    IF \E f \in {year, month, day, hour, minute} : ~IsNumeral(f)
    THEN [ok |-> FALSE, datestr |-> <<>>, timestamp |-> 0]
    ELSE LET M == int(minute) % 60
         IN  [ok |-> TRUE,
              datestr |-> <<int(year), int(month), int(day), int(hour), M, 0>>,
              timestamp |-> DaysFromCivil(int(year), int(month), int(day)) * 86400
                              + int(hour) * 3600 + M * 60]

\* ok = FALSE: int() or datetime() raised. datestr holds the fields that
\* strftime("%Y/%m/%d %H:%M:%S") prints; timestamp() is taken in UTC.
get_date(year, month, day, hour, minute) ==
    IF \/ \E f \in {year, month, day, hour, minute} : ~IsNumeral(f)
       \/ ~ValidDate(int(year), int(month), int(day), int(hour), int(minute))
    THEN [ok |-> FALSE, datestr |-> <<>>, timestamp |-> 0]
    ELSE [ok |-> TRUE,
          datestr |-> <<int(year), int(month), int(day), int(hour),
                        int(minute), 0>>,
          timestamp |-> DaysFromCivil(int(year), int(month), int(day)) * 86400
                          + int(hour) * 3600 + int(minute) * 60]

\* ------------------------------------------------------------------ groupby
KeyOf(row, attrs) == [k \in 1..Len(attrs) |-> row[attrs[k]]]

\* groupby(dropna=True, the default) leaves out a row with NaN in a key column
HasNAKey(row, attrs) == \E k \in 1..Len(attrs) : row[attrs[k]] = NA

\* rank of the field values of the model in the order the sort of groupby
\* compares them (values of one column: stations "1" < "2", minutes
\* "30" < "60" < "ab")
FieldRank(s) ==
    CASE s = "1" -> 1 [] s = "10" -> 2 [] s = "100" -> 3 [] s = "12" -> 4
      [] s = "13" -> 5 [] s = "2" -> 6 [] s = "2022" -> 7 [] s = "30" -> 8
      [] s = "60" -> 9 [] s = "9" -> 10 [] s = "C1" -> 11 [] s = "ab" -> 12
      [] OTHER -> 0

\* lexicographic order of two group keys
KeyLess(a, b, attrs) ==
    \E k \in 1..Len(attrs) :
        /\ \A j \in 1..(k - 1) : a[j] = b[j]
        /\ FieldRank(a[k]) < FieldRank(b[k])

RECURSIVE SortKeys(_, _)
SortKeys(S, attrs) ==
    IF S = {} THEN <<>>
    ELSE LET m == CHOOSE x \in S : \A y \in S \ {x} : KeyLess(x, y, attrs)
         IN  <<m>> \o SortKeys(S \ {m}, attrs)

\* position in the chunk of the first row of a key
FirstRow(chunk, key, attrs) ==
    CHOOSE p \in 1..Len(chunk) :
        /\ KeyOf(chunk[p], attrs) = key
        /\ \A q \in 1..(p - 1) : KeyOf(chunk[q], attrs) # key

RECURSIVE FirstSeenKeys(_, _)
FirstSeenKeys(rows, attrs) ==
    IF rows = <<>> THEN <<>>
    ELSE LET k == KeyOf(Head(rows), attrs)
         IN  <<k>> \o FirstSeenKeys(
                 SelectSeq(Tail(rows), LAMBDA r : KeyOf(r, attrs) # k), attrs)

GroupsOf(chunk, keys, attrs) ==
    [g \in 1..Len(keys) |->
        [key  |-> keys[g],
         data |-> SelectSeq(chunk, LAMBDA r : KeyOf(r, attrs) = keys[g])]]

groupby_first_seen(chunk, attrs) ==
    LET kept == SelectSeq(chunk, LAMBDA r : ~HasNAKey(r, attrs))
    IN  GroupsOf(kept, FirstSeenKeys(kept, attrs), attrs)

\* chunk.groupby(groupby_attrs): the groups in ascending key order (sort=True,
\* the default), each with its rows in file order
groupby(chunk, attrs) ==
    LET kept == SelectSeq(chunk, LAMBDA r : ~HasNAKey(r, attrs))
        keys == {KeyOf(kept[p], attrs) : p \in 1..Len(kept)}
    IN  GroupsOf(kept, SortKeys(keys, attrs), attrs)

\* ------------------------------------------------------------------ loop body
\* the builtins min and max over a non-empty sequence of numbers
RECURSIVE min(_)
min(s) ==
    IF Len(s) = 1 THEN s[1]
    ELSE LET m == min(Tail(s)) IN IF m < s[1] THEN m ELSE s[1]

RECURSIVE max(_)
max(s) ==
    IF Len(s) = 1 THEN s[1]
    ELSE LET m == max(Tail(s)) IN IF m > s[1] THEN m ELSE s[1]

Column(data, col) == [k \in 1..Len(data) |-> data[k][col]]

App(dl, attr, v) == [dl EXCEPT ![attr] = Append(@, v)]

Ext(dl, attr, s) == [dl EXCEPT ![attr] = @ \o s]

shallowest_unfiltered(depth) == [ok |-> TRUE, value |-> min(depth)]

\* ok = FALSE: min() of an empty selection raised ValueError
shallowest(depth) ==
    IF Len(depth) > 1
    THEN LET nonzero == SelectSeq(depth, LAMBDA d : d # 0)
         IN  IF nonzero = <<>> THEN [ok |-> FALSE, value |-> 0]
             ELSE [ok |-> TRUE, value |-> min(nonzero)]
    ELSE [ok |-> TRUE, value |-> min(depth)]

deepest_first(depth) == depth[1]

deepest(depth) == max(depth)

parent_index_from_one(idx, n) == [k \in 1..n |-> idx + 1]

\* [i] * len(data['Depth [m]'])
parent_index(idx, n) == [k \in 1..n |-> idx]

extend_measurements_no_psal(dl, file_type, data) ==
    LET d1 == Ext(Ext(dl, "depth", Column(data, "Depth")),
                  "temp", Column(data, "Temp"))
    IN  IF file_type # "xbt" THEN Ext(d1, "press", Column(data, "Press"))
        ELSE d1

extend_measurements(dl, file_type, data) ==
    LET d1 == Ext(Ext(dl, "depth", Column(data, "Depth")),
                  "temp", Column(data, "Temp"))
    IN  IF file_type # "xbt"
        THEN Ext(Ext(d1, "press", Column(data, "Press")),
                 "psal", Column(data, "Psal"))
        ELSE d1

\* one pass of the inner loop over (group, data) with counter idx: the lists
\* as the pass leaves them, and where it raised ("" when it did not)
group_body(dl, file_type, g, idx) ==
    LET group == g.key
        depth == Column(g.data, "Depth")
        d1 == IF file_type # "xbt" THEN App(dl, "bottom_depth", group[10])
              ELSE dl
        d2 == App(App(App(App(d1, "orig_cruise_id", group[1]),
                  "station_no", group[2]), "lat", group[9]), "lon", group[8])
        date == get_date(group[3], group[4], group[5], group[6], group[7])
        d3 == App(App(d2, "datestr", date.datestr), "timestamp", date.timestamp)
        d4 == extend_measurements(d3, file_type, g.data)
        sh == shallowest(depth)
        d5 == App(App(d4, "shallowest_depth", sh.value),
                  "deepest_depth", deepest(depth))
        d6 == Ext(d5, "parent_index", parent_index(idx, Len(depth)))
    IN  IF ~date.ok THEN [dl |-> d2, err |-> "get_date"]
        ELSE IF ~sh.ok THEN [dl |-> d4, err |-> "min"]
        ELSE [dl |-> d6, err |-> ""]

\* ------------------------------------------------------------------ dataset
ProfileAttrs(file_type) ==
    Range(string_attrs(file_type)) \ {"parent_index"}

ObsAttrs(file_type) ==
    Range(measurements_attrs(file_type)) \cup {"parent_index"}

\* xr.Dataset raises ValueError on two arrays of one dimension that differ
\* in length
DimsAgree(dl, file_type) ==
    /\ \A a, b \in ProfileAttrs(file_type) : Len(dl[a]) = Len(dl[b])
    /\ \A a, b \in ObsAttrs(file_type) : Len(dl[a]) = Len(dl[b])

RECURSIVE RowCount(_)
RowCount(cs) == IF cs = <<>> THEN 0 ELSE Len(Head(cs)) + RowCount(Tail(cs))

\* ------------------------------------------------------------------ actions
Init ==
    /\ call \in Calls
    /\ pc = "start"
    /\ err = ""
    /\ chunks = <<>>
    /\ more = TRUE
    /\ pending = <<>>
    /\ i = 0
    /\ data_lists = initialize_variables(call.file_type)
    /\ written = 0
    /\ casts = <<>>

\* read_ICES: pd.read_csv(data_path, chunksize=...) opened the file
OpenReader ==
    /\ pc = "start"
    /\ call.ext \in {".txt", ".csv"}
    /\ pc' = "chunks"
    /\ UNCHANGED <<call, err, chunks, more, pending, i, data_lists, written, casts>>

\* read_ICES: pd.read_csv raised (no such file)
OpenFails ==
    /\ pc = "start"
    /\ call.ext \in {".txt", ".csv"}
    /\ pc' = "raised"
    /\ err' = "read_csv"
    /\ UNCHANGED <<call, chunks, more, pending, i, data_lists, written, casts>>

\* read_ICES: data_path ends in neither ".txt" nor ".csv", no branch is taken
NoBranch ==
    /\ pc = "start"
    /\ call.ext \notin {".txt", ".csv"}
    /\ pc' = "returned"
    /\ UNCHANGED <<call, err, chunks, more, pending, i, data_lists, written, casts>>

\* for chunk in reader: the next chunk, full unless it is the last of the file
NextChunk ==
    /\ pc = "chunks"
    /\ pending = <<>>
    /\ more
    /\ \E n \in 1..ChunkSize :
         /\ RowCount(chunks) + n <= MaxRows
         /\ \E chunk \in [1..n -> RowSet] :
              /\ chunks' = Append(chunks, chunk)
              /\ pending' = groupby(chunk, groupby_attrs(call.file_type))
         /\ more' = (n = ChunkSize)
    /\ UNCHANGED <<call, pc, err, i, data_lists, written, casts>>

\* for chunk in reader: the reader raised on a row it cannot parse
ChunkFails ==
    /\ pc = "chunks"
    /\ pending = <<>>
    /\ more
    /\ pc' = "raised"
    /\ err' = "read_csv"
    /\ UNCHANGED <<call, chunks, more, pending, i, data_lists, written, casts>>

\* for chunk in reader: the reader is exhausted, process_chunks returns
ReaderStop ==
    /\ pc = "chunks"
    /\ pending = <<>>
    /\ more' = FALSE
    /\ pc' = "write"
    /\ UNCHANGED <<call, err, chunks, pending, i, data_lists, written, casts>>

\* for group, data in grouped_df: one pass of the loop body
ProcessGroup ==
    /\ pc = "chunks"
    /\ pending # <<>>
    /\ LET g == Head(pending)
           r == group_body(data_lists, call.file_type, g, i)
       IN  /\ data_lists' = r.dl
           /\ IF r.err = ""
              THEN /\ i' = i + 1
                   /\ pending' = Tail(pending)
                   /\ casts' = Append(casts,
                        [index |-> i,
                         chunk |-> Len(chunks),
                         first |-> FirstRow(chunks[Len(chunks)], g.key,
                                            groupby_attrs(call.file_type)),
                         key   |-> g.key,
                         depth |-> Column(g.data, "Depth")])
                   /\ UNCHANGED <<pc, err>>
              ELSE /\ pc' = "raised"
                   /\ err' = r.err
                   /\ UNCHANGED <<i, pending, casts>>
    /\ UNCHANGED <<call, chunks, more, written>>

\* create_dataset called inside the loop over the chunks
CreateDataset_in_loop ==
    /\ pc = "chunks"
    /\ pending = <<>>
    /\ chunks # <<>>
    /\ written < 2
    /\ written' = written + 1
    /\ UNCHANGED <<call, pc, err, chunks, more, pending, i, data_lists, casts>>

\* create_dataset: the dataset is built and to_netcdf wrote it
CreateDataset ==
    /\ pc = "write"
    /\ IF DimsAgree(data_lists, call.file_type)
       THEN /\ written' = written + 1
            /\ pc' = "returned"
            /\ err' = err
       ELSE /\ pc' = "raised"
            /\ err' = "dims"
            /\ written' = written
    /\ UNCHANGED <<call, chunks, more, pending, i, data_lists, casts>>

\* create_dataset: os.chdir, os.mkdir or to_netcdf raised
CreateDatasetFails ==
    /\ pc = "write"
    /\ pc' = "raised"
    /\ err' = "write"
    /\ UNCHANGED <<call, chunks, more, pending, i, data_lists, written, casts>>

Next ==
    \/ OpenReader
    \/ OpenFails
    \/ NoBranch
    \/ NextChunk
    \/ ChunkFails
    \/ ReaderStop
    \/ ProcessGroup
    \/ CreateDataset
    \/ CreateDatasetFails

Spec == Init /\ [][Next]_vars

\* ------------------------------------------------------------------ claims
\* process_chunks has consumed every chunk without raising
Aggregated ==
    \/ pc = "write"
    \/ pc = "returned" /\ written > 0
    \/ pc = "raised" /\ err \in {"write", "dims"}

ProfileCount == Len(data_lists["orig_cruise_id"])

\* positions of the observation arrays whose parent_index is k
ObsOf(k) ==
    {p \in 1..Len(data_lists["parent_index"]) : data_lists["parent_index"][p] = k}

DepthsOf(k) == {data_lists["depth"][p] : p \in ObsOf(k)}

MinOf(S) == CHOOSE x \in S : \A y \in S : x <= y

MaxOf(S) == CHOOSE x \in S : \A y \in S : x >= y

DistinctKeys(chunk) ==
    {KeyOf(chunk[p], groupby_attrs(call.file_type)) : p \in 1..Len(chunk)}

RECURSIVE DistinctKeyCount(_)
DistinctKeyCount(cs) ==
    IF cs = <<>> THEN 0
    ELSE Cardinality(DistinctKeys(Head(cs))) + DistinctKeyCount(Tail(cs))

RECURSIVE CastRows(_)
CastRows(cs) ==
    IF cs = <<>> THEN 0 ELSE Len(Head(cs).depth) + CastRows(Tail(cs))

\* C1: once process_chunks has consumed all chunks without raising, the
\* number of observation records (the length of depth, and of parent_index)
\* equals the number of data rows of the input: no row is dropped or counted
\* twice.
C1_ObservationCountIsRowCount ==
    Aggregated =>
        /\ Len(data_lists["depth"]) = RowCount(chunks)
        /\ Len(data_lists["parent_index"]) = RowCount(chunks)

\* C2: once process_chunks has completed, the values of parent_index are
\* exactly 0 .. profileCount-1, and each value k occurs as many times as the
\* k-th cast has rows.
C2_ParentIndexContiguous ==
    Aggregated =>
        /\ Range(data_lists["parent_index"]) = 0..(ProfileCount - 1)
        /\ Len(casts) = ProfileCount
        /\ \A k \in 0..(ProfileCount - 1) :
               Cardinality(ObsOf(k)) = Len(casts[k + 1].depth)

C2_Witness ==
    /\ Aggregated
    /\ Len(chunks) = 2
    /\ ProfileCount = 3
    /\ \E k \in 1..Len(casts) : Len(casts[k].depth) = 2

\* C3: the number of profile records equals the sum over the chunks of the
\* number of distinct CastKey values among the chunk's rows.
C3_ProfileCountIsDistinctKeys ==
    Aggregated => ProfileCount = DistinctKeyCount(chunks)

\* C4: for every cast processed, a cast of one depth reading has that reading
\* as shallowest_depth (zero included), a cast of more readings has the
\* minimum of its non-zero readings; depths [0, 1, 2] give shallowest 1 and
\* deepest 2.
C4_ShallowestRule ==
    \A k \in 1..Len(casts) :
        LET d  == casts[k].depth
            nz == {d[j] : j \in 1..Len(d)} \ {0}
            sd == data_lists["shallowest_depth"][k]
        IN  /\ Len(d) = 1 => sd = d[1]
            /\ Len(d) > 1 => (sd \in nz /\ \A x \in nz : sd <= x)
            /\ d = <<0, 1, 2>> => (sd = 1 /\ data_lists["deepest_depth"][k] = 2)

C4_Witness ==
    /\ \E k \in 1..Len(casts) : casts[k].depth = <<0, 1, 2>>
    /\ \E k \in 1..Len(casts) : casts[k].depth = <<0>>

\* C5 as stated: for every profile index k, the minimum and the maximum of the
\* depth entries whose parent_index is k are shallowest_depth[k] and
\* deepest_depth[k].
C5_RoundTripMinMax ==
    Aggregated =>
        \A k \in 0..(ProfileCount - 1) :
            /\ ObsOf(k) # {}
            /\ MinOf(DepthsOf(k)) = data_lists["shallowest_depth"][k + 1]
            /\ MaxOf(DepthsOf(k)) = data_lists["deepest_depth"][k + 1]

\* C5 amended: for every profile index k, the maximum of the depth entries
\* whose parent_index is k is deepest_depth[k], and shallowest_depth[k] is
\* the entry itself when there is one entry, the minimum of the non-zero
\* entries when there are more.
C5_RoundTripByRule ==
    Aggregated =>
        \A k \in 0..(ProfileCount - 1) :
            /\ ObsOf(k) # {}
            /\ MaxOf(DepthsOf(k)) = data_lists["deepest_depth"][k + 1]
            /\ IF Cardinality(ObsOf(k)) = 1
               THEN data_lists["shallowest_depth"][k + 1] = MinOf(DepthsOf(k))
               ELSE /\ DepthsOf(k) \ {0} # {}
                    /\ data_lists["shallowest_depth"][k + 1]
                         = MinOf(DepthsOf(k) \ {0})

C5_Witness ==
    /\ Aggregated
    /\ ProfileCount = 2
    /\ \E k \in 0..(ProfileCount - 1) :
          /\ Cardinality(ObsOf(k)) > 1
          /\ 0 \in DepthsOf(k)
          /\ data_lists["shallowest_depth"][k + 1] # MinOf(DepthsOf(k))

\* the first row of cast a comes before the first row of cast b in the input
FirstRowBefore(a, b) ==
    \/ casts[a].chunk < casts[b].chunk
    \/ casts[a].chunk = casts[b].chunk /\ casts[a].first < casts[b].first

\* C6 as stated: profile indices follow first-seen order: a cast whose first
\* row comes earlier in the input has the smaller profile index.
C6_FirstSeenOrder ==
    \A a, b \in 1..Len(casts) :
        FirstRowBefore(a, b) => casts[a].index < casts[b].index

\* C6 amended: profile indices start at 0 and follow chunk order and, inside
\* a chunk, the ascending order of the cast keys: a cast of an earlier chunk,
\* or of the same chunk with a smaller key, has the smaller profile index,
\* and its record is held at that index.
C6_SortedKeyOrder ==
    /\ casts # <<>> => casts[1].index = 0
    /\ \A a \in 1..Len(casts) :
          data_lists["station_no"][casts[a].index + 1] = casts[a].key[2]
    /\ \A a, b \in 1..Len(casts) :
          (\/ casts[a].chunk < casts[b].chunk
           \/ /\ casts[a].chunk = casts[b].chunk
              /\ KeyLess(casts[a].key, casts[b].key,
                         groupby_attrs(call.file_type)))
            => casts[a].index < casts[b].index

C6_Witness ==
    \E a, b \in 1..Len(casts) :
        /\ casts[a].chunk = casts[b].chunk
        /\ casts[a].first > casts[b].first
        /\ casts[a].index < casts[b].index

\* the group the inner loop is about to process has a minute that is not a
\* number or is out of range
BadDateNext ==
    /\ pc = "chunks"
    /\ pending # <<>>
    /\ Head(pending).key[7] \in {"60", "ab"}

\* C7: when a cast with a non-numeric or out-of-range date field is reached,
\* the run aborts with the error raised from get_date; afterwards no group or
\* chunk is processed, create_dataset is not called and nothing is written.
C7_BadDateAborts ==
    [][ /\ BadDateNext =>
            (pc' = "raised" /\ err' = "get_date" /\ written' = 0 /\ i' = i)
        /\ err = "get_date" => (written = 0 /\ UNCHANGED vars) ]_vars

C7_Witness ==
    /\ err = "get_date"
    /\ pc = "raised"
    /\ Len(casts) >= 1
    /\ Len(pending) >= 2
    /\ written = 0

\* C8: within one run the dataset is written at most once, and only after the
\* reader is exhausted and every group of every chunk has been processed.
C8_WriteOnceAtEnd ==
    [][ written' # written =>
            /\ written = 0
            /\ written' = 1
            /\ ~more
            /\ pending = <<>>
            /\ i = Len(casts) ]_vars

C8_Witness ==
    /\ written = 1
    /\ pc = "returned"
    /\ Len(chunks) = 2
    /\ i >= 2

\* C9: after every fully processed group and whenever create_dataset is
\* called, the profile-dimension lists all have length i, the
\* observation-dimension lists all have the length of the rows aggregated so
\* far, and create_dataset never fails on a dimension mismatch.
C9_DimensionsConsistent ==
    /\ err # "dims"
    /\ err \notin {"get_date", "min"} =>
          /\ \A a \in ProfileAttrs(call.file_type) : Len(data_lists[a]) = i
          /\ \A a \in ObsAttrs(call.file_type) :
                Len(data_lists[a]) = CastRows(casts)

C9_Witness ==
    /\ pc = "write"
    /\ call.file_type # "xbt"
    /\ i = 2
    /\ CastRows(casts) = 3
    /\ "bottom_depth" \in DOMAIN data_lists
    /\ Len(data_lists["psal"]) = 3

\* C10: a call of read_ICES either raises or returns having written exactly
\* one dataset; it never returns without having written.
C10_ReturnsOnlyAfterWrite ==
    pc = "returned" => written = 1

====
